---- MODULE Spec2Model ----
(***************************************************************************)
(* Banner generation engine of banner-bot: the pipeline orchestrator      *)
(* (engine/pipeline.py), the stand-alone exporter (engine/exporter.py)    *)
(* and the banner service (services/banner_service.py), as processes      *)
(* sharing one output directory.                                           *)
(*                                                                         *)
(* Scheduling.  Coroutines run on one asyncio event loop; a coroutine     *)
(* segment between two awaits is one action.  Work handed to              *)
(* asyncio.to_thread runs concurrently with the loop, one action per      *)
(* file-system call.  _cleanup_temp_files is a coroutine without an await:*)
(* once started it keeps the loop until it ends (variable loop), while    *)
(* worker threads go on.  Exporter._cleanup runs inside the worker thread.*)
(***************************************************************************)
EXTENDS Integers, Sequences, FiniteSets, TLC

\* ---------------------------------------------------------------- bounds
NumCalls == 2      \* calls that may be in flight together
MaxCalls == 3      \* calls made in one behaviour of Spec
NumNames == 2      \* names tempfile.mkstemp can draw
NumCopies == 1     \* names uuid4 can draw for the service's copy
MaxTitleLength == 1 \* config.MAX_TITLE_LENGTH, scaled down
GenRuns == 1       \* calls made one after the other in SpecGen
KeepFiles == 1     \* retention limit (_keep_files, KEEP_FILES), scaled down
MaxMtime == 2      \* modification times of the files of an initial directory
MaxTextEms == 60   \* widest title measured: MAX_TITLE_LENGTH glyphs of one em each
NumBufs == 5       \* raster buffers that can be alive together
NumDbCalls == 2    \* callers of the Database object that may be in a call together
MaxClients == 4    \* client objects constructed in one behaviour
MaxCrashes == 7    \* crashes of the bot task in one behaviour
MaxEvents == 2     \* events the middleware handles in one behaviour

\* ------------------------------------------------------ program constants
CanvasWidth == 1080 \* BANNER_WIDTH
MinSize == 18       \* floor of the loop of _render_text_and_watermark
AutoFloor == 20     \* floor of auto_font
AutoStep == 4       \* step of auto_font
Retries == 3        \* retries of Database.connect
InitialBackoff == 1 \* backoff of LastPerson07_start_bot
MaxBackoff == 30    \* max_backoff of LastPerson07_start_bot

Calls == 1..NumCalls
Bufs == 1..NumBufs
DbCalls == 1..NumDbCalls
TmpNames == 1..NumNames
CopyNames == (NumNames + 1)..(NumNames + NumCopies)
\* every name matches the pattern banner_*.jpg of the output directory
Names == TmpNames \cup CopyNames
NoName == 0

\* the keys of template_map: "n" stands for templates_dir / "template<n>.jpg"
TemplateNos == {"1", "2", "3", "4"}
\* the template_id arguments: the keys, and an id the map does not have
TemplateIds == TemplateNos \cup {"9"}
\* the call is not one of create_banner
NoId == "none"

VARIABLES
    anime_api,  \* "ok" | "none": the module-level import of the collaborator
    fs,         \* [Names -> [st, mt]]: the output directory
    fs0,        \* the directory at construction
    loop,       \* 0, or the call whose cleanup coroutine holds the event loop
    left,       \* calls the callers will still make
    kind,       \* [Calls -> "none" | "engine" | "service" | "exporter"]
    pc,         \* [Calls -> stage of the call]
    raw,        \* [Calls -> the title argument]
    title,      \* [Calls -> the local title of generate]
    tpl,        \* [Calls -> template_path: "none" | "missing" | "corrupt" | "ok"]
    wall,       \* [Calls -> what the wallpaper attempt gave]
    bg,         \* [Calls -> source of the canvas: "none" | "template" | "wallpaper"]
    name,       \* [Calls -> the path mkstemp returned, or NoName]
    exp,        \* [Calls -> outcome of the export thread]
    ret,        \* [Calls -> what the call returned or raised]
    out,        \* [Calls -> the path returned, or NoName]
    seen,       \* [Calls -> state of the engine's file when generate returned]
    cl,         \* [Calls -> state of the call's cleanup pass]
    listed,     \* [Calls -> the files the pass globbed]
    todo,       \* [Calls -> the files the pass still has to unlink]
    raised,     \* [Calls -> the files whose unlink raised in the call's pass]
    background, \* composite: the canvas passed in, as the effects it carries
    failing,    \* composite: the stages that raise for this canvas
    comp_pc,    \* composite: "ready" | "returned"
    composed,   \* composite: the canvas returned
    routine,    \* auto-fit: "render" (the loop of _render_text_and_watermark) | "auto_font"
    fit_pc,     \* auto-fit: "start" | "test" | "shrink" | "done"
    fm_size,    \* auto-fit: size of the font held in fm / font
    text_em,    \* auto-fit: advance width of the title, in ems
    has_getsize, \* auto-fit: whether the installed Pillow's fonts have getsize
    heap,       \* [Bufs -> the call that created the raster buffer, or 0: not in use]
    refs,       \* [Calls -> the buffers the locals of the call refer to]
    canvas,     \* [Calls -> the buffer of bg / output_image, or 0]
    work,       \* [Calls -> the buffer the ImageDraw of the call draws on, or 0]
    cv_pc,      \* [Calls -> "idle" | "loaded" | "overlaid" | "drawing" | "drawn"
                \*           | "rendered" | "done"]
    templates,  \* [TemplateNos -> "absent" | "ok" | "corrupt"]: the templates directory
    tpl_id,     \* [Calls -> the template_id argument of create_banner, or NoId]
    client,     \* Database.client: 0 (None), or the client object
    db,         \* Database.db: 0 (None), or the client whose database it is
    connect_lock, \* Database._connect_lock: 0 (free), or the call that holds it
    lock_waiters, \* the calls waiting in _connect_lock.acquire(), first come first
    indexes_ready, \* Database._indexes_ready
    created,    \* AsyncIOMotorClient objects constructed so far
    pinged,     \* the clients on which a ping has succeeded
    db_op,      \* [DbCalls -> "none" | "connect" | "ensure" | "init_indexes"]
    db_pc,      \* [DbCalls -> position of the call]
    attempt,    \* [DbCalls -> attempts of the retry loop begun]
    own,        \* [DbCalls -> the client the call constructed last, or 0]
    db_ret,     \* [DbCalls -> how the call ended]
    bot_pc,     \* the await the bot task is suspended in, "off" or "exited"
    backoff,    \* local backoff of LastPerson07_start_bot
    crashes,    \* times the `except Exception` branch was entered
    delay,      \* the argument of the last asyncio.sleep(backoff)
    startups,   \* calls of LastPerson07_on_startup
    cancel_at,  \* "none", or where the task was when it was cancelled
    down,       \* LastPerson07_shutdown has returned since the last on_startup began
    bot_made,   \* the global bot is not None
    bot_closed, \* shutdown has closed the session of the bot
    dp_made,    \* the global dp is not None
    dp_down,    \* shutdown has shut the dispatcher down
    registered, \* the global _registered
    reg_count,  \* times routers and middlewares were registered on dp
    exit_how,   \* "none" | "normal" | "cancelled" | "propagated"
    ev_type,    \* class of the event the middleware handles
    ev_user,    \* whether from_user was found
    auth_pc,    \* the await __call__ is suspended in, "idle" or "done"
    ban,        \* what the ban check gave: "none" | "banned" | "clear" | "raised"
    notice,     \* the ban notice: "none" | "sent" | "failed" | "skipped"
    upsert,     \* the user upsert: "none" | "ok" | "failed"
    calls,      \* invocations of the downstream handler for the event
    auth_ret,   \* how __call__ ended: "none" | "returned" | "stopped" | "raised"
    events      \* events handled so far

\* the engine calls, their export threads and the output directory
\* what create_banner resolves a template_id against
svcVars == <<templates, tpl_id>>

engineVars == <<anime_api, fs, fs0, loop, left, kind, pc, raw, title, tpl, wall,
                bg, name, exp, ret, out, seen, cl, listed, todo, svcVars>>

\* the image routines, which touch neither the calls nor the directory
compVars == <<background, failing, comp_pc, composed>>

fitVars == <<routine, fit_pc, fm_size, text_em, has_getsize>>

canvasVars == <<heap, refs, canvas, work, cv_pc>>

imageVars == <<compVars, fitVars, canvasVars>>

\* database/mongo.py: the Database object and the calls on it
dbVars == <<client, db, connect_lock, lock_waiters, indexes_ready, created, pinged,
            db_op, db_pc, attempt, own, db_ret>>

\* bot.py: the restart loop and the globals bot, dp and _registered
botVars == <<bot_pc, backoff, crashes, delay, startups, cancel_at, down, bot_made,
             bot_closed, dp_made, dp_down, registered, reg_count, exit_how>>

\* middlewares/auth.py: one __call__ of the middleware
authVars == <<ev_type, ev_user, auth_pc, ban, notice, upsert, calls, auth_ret, events>>

\* the parts of the application outside the banner engine
appVars == <<dbVars, botVars, authVars>>

\* what the stages of a call leave alone
otherVars == <<raised, imageVars, appVars>>

vars == <<engineVars, otherVars>>

passVars == <<cl, listed, todo>>

\* ------------------------------------------------------------ file system
\* st: "absent", or the content of the file: "empty" | "partial" | "full".
\* mt: st_mtime.  The code only compares modification times, so the directory
\* keeps their order: the files with the oldest time have mt = 1, the next
\* ones mt = 2, and so on.
Absent == [st |-> "absent", mt |-> 0]

Present(f) == {n \in Names : f[n].st # "absent"}

\* Path.glob(f"{prefix}*.jpg")
Glob(f) == Present(f)

Rank(f, n) == Cardinality({f[m].mt : m \in {x \in Present(f) : f[x].mt <= f[n].mt}})

Ranked(f) ==
    [n \in Names |-> IF f[n].st = "absent" THEN Absent
                     ELSE [st |-> f[n].st, mt |-> Rank(f, n)]]

Newest(f) == Cardinality({f[m].mt : m \in Present(f)})

\* a write to path n: its modification time becomes the newest of the directory
Written(f, n, st) ==
    Ranked([f EXCEPT ![n] = [st |-> st, mt |-> Newest(f) + 1]])

\* Path.unlink
Unlinked(f, n) == Ranked([f EXCEPT ![n] = Absent])

RECURSIVE Perms(_)
Perms(S) ==
    IF S = {} THEN {<<>>}
    ELSE UNION {{<<x>> \o p : p \in Perms(S \ {x})} : x \in S}

\* the sort without reverse=True
SortedAsc(S, f) ==
    {s \in Perms(S) : \A i \in 1..Len(s) : \A j \in 1..Len(s) :
                         i < j => f[s[i]].mt <= f[s[j]].mt}

\* files.sort(key=lambda p: p.stat().st_mtime, reverse=True): the results the
\* sort can give for a listing in any glob order
SortedDesc(S, f) ==
    {s \in Perms(S) : \A i \in 1..Len(s) : \A j \in 1..Len(s) :
                         i < j => f[s[i]].mt >= f[s[j]].mt}

\* files[self._keep_files:]
ToRemove(s) == SubSeq(s, KeepFiles + 1, Len(s))

\* ---------------------------------------------------------------- initial
IdleCalls ==
    /\ kind = [c \in Calls |-> "none"]
    /\ pc = [c \in Calls |-> "idle"]
    /\ raw = [c \in Calls |-> <<>>]
    /\ title = [c \in Calls |-> <<>>]
    /\ tpl = [c \in Calls |-> "none"]
    /\ wall = [c \in Calls |-> "untried"]
    /\ bg = [c \in Calls |-> "none"]
    /\ name = [c \in Calls |-> NoName]
    /\ exp = [c \in Calls |-> "none"]
    /\ ret = [c \in Calls |-> "none"]
    /\ out = [c \in Calls |-> NoName]
    /\ seen = [c \in Calls |-> "none"]
    /\ cl = [c \in Calls |-> "none"]
    /\ listed = [c \in Calls |-> {}]
    /\ todo = [c \in Calls |-> <<>>]
    /\ tpl_id = [c \in Calls |-> NoId]

\* a templates directory in which template1.jpg loads, template2.jpg does not
\* decode and the other two files are missing
GenTemplates ==
    [n \in TemplateNos |-> IF n = "1" THEN "ok" ELSE IF n = "2" THEN "corrupt" ELSE "absent"]

\* no image routine is running and no unlink has failed
CompIdle ==
    /\ background = <<>>
    /\ failing = {}
    /\ comp_pc = "ready"
    /\ composed = <<>>

FitIdle ==
    /\ routine = "none"
    /\ fit_pc = "idle"
    /\ fm_size = 0
    /\ text_em = 0
    /\ has_getsize = FALSE

CanvasIdle ==
    /\ heap = [b \in Bufs |-> 0]
    /\ refs = [c \in Calls |-> {}]
    /\ canvas = [c \in Calls |-> 0]
    /\ work = [c \in Calls |-> 0]
    /\ cv_pc = [c \in Calls |-> "idle"]

\* Database.__init__, and no call made on the object
DbIdle ==
    /\ client = 0
    /\ db = 0
    /\ connect_lock = 0
    /\ lock_waiters = <<>>
    /\ indexes_ready = FALSE
    /\ created = 0
    /\ pinged = {}
    /\ db_op = [p \in DbCalls |-> "none"]
    /\ db_pc = [p \in DbCalls |-> "idle"]
    /\ attempt = [p \in DbCalls |-> 0]
    /\ own = [p \in DbCalls |-> 0]
    /\ db_ret = [p \in DbCalls |-> "none"]

\* the globals of bot.py after import; the bot task is not started
BotGlobals ==
    /\ backoff = InitialBackoff
    /\ crashes = 0
    /\ delay = 0
    /\ cancel_at = "none"
    /\ down = FALSE
    /\ bot_made = FALSE
    /\ bot_closed = FALSE
    /\ dp_made = FALSE
    /\ dp_down = FALSE
    /\ registered = FALSE
    /\ reg_count = 0
    /\ exit_how = "none"

BotIdle ==
    /\ BotGlobals
    /\ bot_pc = "off"
    /\ startups = 0

\* no event has reached the middleware
AuthIdle ==
    /\ ev_type = "none"
    /\ ev_user = FALSE
    /\ auth_pc = "idle"
    /\ ban = "none"
    /\ notice = "none"
    /\ upsert = "none"
    /\ calls = 0
    /\ auth_ret = "none"
    /\ events = 0

AppIdle == DbIdle /\ BotIdle /\ AuthIdle

OthersIdle ==
    /\ raised = [c \in Calls |-> {}]
    /\ CompIdle
    /\ FitIdle
    /\ CanvasIdle
    /\ AppIdle

\* no call is made and the output directory is empty
EngineIdle ==
    /\ anime_api = "ok"
    /\ templates = GenTemplates
    /\ fs = [n \in Names |-> Absent]
    /\ fs0 = fs
    /\ loop = 0
    /\ left = 0
    /\ IdleCalls
    /\ raised = [c \in Calls |-> {}]

\* a fresh process on an empty output directory (__init__ creates it)
Init ==
    /\ anime_api \in {"ok", "none"}
    /\ templates = GenTemplates
    /\ fs = [n \in Names |-> Absent]
    /\ fs0 = fs
    /\ loop = 0
    /\ left = MaxCalls
    /\ IdleCalls
    /\ OthersIdle

\* ------------------------------------------------------ generate: stages
Fresh(c) ==
    /\ pc[c] \in {"idle", "done"}
    /\ cl[c] \in {"none", "done", "aborted"}
    /\ left > 0

\* self._create_gradient_bg: the class defines no such method, so evaluating
\* the attribute raises AttributeError before to_thread is called
CreateGradientBg == "AttributeError"

\* _load_background, steps 2 and 3, entered on the event loop
WallpaperOrGradient(c, w) ==
    IF anime_api = "ok"
    THEN /\ pc' = [pc EXCEPT ![c] = "wall_fetch"]
         /\ wall' = [wall EXCEPT ![c] = "fetching"]
         /\ ret' = [ret EXCEPT ![c] = "none"]
    ELSE /\ pc' = [pc EXCEPT ![c] = "done"]
         /\ wall' = [wall EXCEPT ![c] = w]
         /\ ret' = [ret EXCEPT ![c] = IF CreateGradientBg = "AttributeError"
                                      THEN "err_gradient" ELSE "none"]

\* a call enters slot c: the locals of the call that used the slot are gone
NewCall(c, k) ==
    /\ Fresh(c)
    /\ loop = 0
    /\ left' = left - 1
    /\ kind' = [kind EXCEPT ![c] = k]
    /\ name' = [name EXCEPT ![c] = NoName]
    /\ exp' = [exp EXCEPT ![c] = "none"]
    /\ out' = [out EXCEPT ![c] = NoName]
    /\ seen' = [seen EXCEPT ![c] = "none"]
    /\ cl' = [cl EXCEPT ![c] = "none"]
    /\ listed' = [listed EXCEPT ![c] = {}]
    /\ todo' = [todo EXCEPT ![c] = <<>>]
    /\ raised' = [raised EXCEPT ![c] = {}]
    /\ UNCHANGED <<imageVars, appVars, templates, anime_api, fs, fs0, loop>>

\* str.strip(): leading and trailing whitespace removed
RECURSIVE StripLeft(_)
StripLeft(t) ==
    IF t # <<>> /\ Head(t) = " " THEN StripLeft(Tail(t)) ELSE t

RECURSIVE StripRight(_)
StripRight(t) ==
    IF t # <<>> /\ t[Len(t)] = " " THEN StripRight(SubSeq(t, 1, Len(t) - 1)) ELSE t

Strip(t) == StripRight(StripLeft(t))

\* the title trimmed and not truncated
Untruncated(t) == Strip(t)

\* title = (title or "").strip(); if len(title) > MAX: title = title[:MAX]
Truncated(t) ==
    IF Len(Strip(t)) > MaxTitleLength
    THEN SubSeq(Strip(t), 1, MaxTitleLength)
    ELSE Strip(t)

\* the titles a caller may pass
TitleChars == {" ", "a"}
RawTitles == UNION {[1..n -> TitleChars] : n \in 0..(MaxTitleLength + 2)}

\* create_banner before the engine is called: the title is stripped and an
\* empty one refused with ValueError
ServiceRefuses(k, r) == k = "service" /\ Strip(r) = <<>>

\* tpl_path_obj = template_map.get(template_id, template_map["1"])
TemplateMap(id) == IF id \in TemplateNos THEN id ELSE "1"

\* tpl_path of create_banner: None when the mapped file does not exist, else
\* the path of the file, named here by what opening it gives
ServiceTemplate(id) ==
    IF templates[TemplateMap(id)] = "absent" THEN "none" ELSE templates[TemplateMap(id)]

\* create_banner up to its first await and LastPerson07_generate up to its
\* first await: template_id mapped to a path, title trimmed and truncated,
\* _load_background entered; step 1 opens the template only when a path is
\* given and the file exists
GenStart(c, k, id, t, r) ==
    /\ k \in {"engine", "service"}
    \* create_banner passes no template when the mapped file does not exist
    /\ k = "service" => (id \in TemplateIds /\ t = ServiceTemplate(id))
    /\ k = "engine" => id = NoId
    /\ NewCall(c, k)
    /\ tpl_id' = [tpl_id EXCEPT ![c] = id]
    /\ raw' = [raw EXCEPT ![c] = r]
    /\ bg' = [bg EXCEPT ![c] = "none"]
    /\ IF ServiceRefuses(k, r)
       THEN /\ pc' = [pc EXCEPT ![c] = "done"]
            /\ ret' = [ret EXCEPT ![c] = "err_title"]
            /\ title' = [title EXCEPT ![c] = <<>>]
            /\ tpl' = [tpl EXCEPT ![c] = "none"]
            /\ wall' = [wall EXCEPT ![c] = "untried"]
       ELSE /\ title' = [title EXCEPT ![c] = Truncated(r)]
            /\ tpl' = [tpl EXCEPT ![c] = t]
            /\ IF t \in {"ok", "corrupt"}
               THEN /\ pc' = [pc EXCEPT ![c] = "tpl_open"]
                    /\ wall' = [wall EXCEPT ![c] = "untried"]
                    /\ ret' = [ret EXCEPT ![c] = "none"]
               ELSE WallpaperOrGradient(c, "untried")

\* step 1 without its `return`: the loaded template is kept and step 2 entered
TplOpened_NoReturn(c) ==
    /\ pc[c] = "tpl_open"
    /\ loop = 0
    /\ bg' = [bg EXCEPT ![c] = IF tpl[c] = "ok" THEN "template" ELSE bg[c]]
    /\ WallpaperOrGradient(c, "untried")
    /\ UNCHANGED <<otherVars, svcVars, anime_api, fs, fs0, loop, left, kind, raw, title, tpl, name,
                   exp, out, seen, passVars>>

\* _open_and_resize returned or raised; the coroutine goes on
TplOpened(c) ==
    /\ pc[c] = "tpl_open"
    /\ loop = 0
    /\ IF tpl[c] = "ok"
       THEN /\ bg' = [bg EXCEPT ![c] = "template"]
            /\ pc' = [pc EXCEPT ![c] = "overlay"]
            /\ UNCHANGED <<wall, ret>>
       ELSE /\ WallpaperOrGradient(c, "untried")
            /\ UNCHANGED bg
    /\ UNCHANGED <<otherVars, svcVars, anime_api, fs, fs0, loop, left, kind, raw, title, tpl, name,
                   exp, out, seen, passVars>>

\* anime_api.get_anime_wallpaper() returned w or raised
WallFetched(c, w) ==
    /\ pc[c] = "wall_fetch"
    /\ loop = 0
    /\ w \in {"data", "nodata", "exception"}
    /\ IF w = "data"
       THEN /\ pc' = [pc EXCEPT ![c] = "wall_decode"]
            /\ wall' = [wall EXCEPT ![c] = "data"]
            /\ UNCHANGED ret
       ELSE /\ pc' = [pc EXCEPT ![c] = "done"]
            /\ wall' = [wall EXCEPT ![c] = w]
            /\ ret' = [ret EXCEPT ![c] = IF CreateGradientBg = "AttributeError"
                                         THEN "err_gradient" ELSE "none"]
    /\ UNCHANGED <<otherVars, svcVars, anime_api, fs, fs0, loop, left, kind, raw, title, tpl, bg,
                   name, exp, out, seen, passVars>>

\* _open_bytes_and_resize returned (ok) or raised
WallDecoded(c, ok) ==
    /\ pc[c] = "wall_decode"
    /\ loop = 0
    /\ IF ok
       THEN /\ bg' = [bg EXCEPT ![c] = "wallpaper"]
            /\ wall' = [wall EXCEPT ![c] = "decoded"]
            /\ pc' = [pc EXCEPT ![c] = "overlay"]
            /\ UNCHANGED ret
       ELSE /\ wall' = [wall EXCEPT ![c] = "undecodable"]
            /\ pc' = [pc EXCEPT ![c] = "done"]
            /\ ret' = [ret EXCEPT ![c] = IF CreateGradientBg = "AttributeError"
                                         THEN "err_gradient" ELSE "none"]
            /\ UNCHANGED bg
    /\ UNCHANGED <<otherVars, svcVars, anime_api, fs, fs0, loop, left, kind, raw, title, tpl, name,
                   exp, out, seen, passVars>>

\* _apply_overlay returned; _render_text_and_watermark is handed to a thread
OverlayDone(c) ==
    /\ pc[c] = "overlay"
    /\ loop = 0
    /\ pc' = [pc EXCEPT ![c] = "render"]
    /\ UNCHANGED <<otherVars, svcVars, anime_api, fs, fs0, loop, left, kind, raw, title, tpl, wall,
                   bg, name, exp, ret, out, seen, passVars>>

\* _render_text_and_watermark returned (ok) or raised; on success the export
\* is handed to a thread
RenderDone(c, ok) ==
    /\ pc[c] = "render"
    /\ loop = 0
    /\ IF ok
       THEN /\ pc' = [pc EXCEPT ![c] = "reserve"]
            /\ UNCHANGED ret
       ELSE /\ pc' = [pc EXCEPT ![c] = "done"]
            /\ ret' = [ret EXCEPT ![c] = "err_render"]
    /\ UNCHANGED <<otherVars, svcVars, anime_api, fs, fs0, loop, left, kind, raw, title, tpl, wall,
                   bg, name, exp, out, seen, passVars>>

\* ------------------------------------------------------------------ export
\* _export_image / _export_sync in a worker thread: mkdir(exist_ok=True), then
\* tempfile.mkstemp(prefix, ".jpg", dir) and os.close(fd).  mkstemp creates an
\* empty file under a name that no file of the directory has (O_EXCL).
\* r: "ok", or the call that raised.
ExportReserve(c, r, n) ==
    /\ pc[c] = "reserve"
    /\ r \in {"ok", "err_mkdir", "err_mkstemp"}
    /\ IF r = "ok"
       THEN /\ n \in TmpNames
            /\ fs[n].st = "absent"
            /\ fs' = Written(fs, n, "empty")
            /\ name' = [name EXCEPT ![c] = n]
            /\ pc' = [pc EXCEPT ![c] = "save_open"]
            /\ UNCHANGED exp
       ELSE /\ n = NoName
            /\ exp' = [exp EXCEPT ![c] = r]
            /\ pc' = [pc EXCEPT ![c] = "exported"]
            /\ UNCHANGED <<fs, name>>
    /\ UNCHANGED <<otherVars, svcVars, anime_api, fs0, loop, left, kind, raw, title, tpl, wall, bg, ret,
                   out, seen, passVars>>

\* image.save(path, "JPEG", ...): Pillow opens the path "w+b", which truncates
\* the file, or creates it when a cleanup pass has unlinked it meanwhile
SaveOpen(c, ok) ==
    /\ pc[c] = "save_open"
    /\ IF ok
       THEN /\ fs' = Written(fs, name[c], "partial")
            /\ pc' = [pc EXCEPT ![c] = "save_write"]
            /\ UNCHANGED exp
       ELSE /\ exp' = [exp EXCEPT ![c] = "err_save"]
            /\ pc' = [pc EXCEPT ![c] = "exported"]
            /\ UNCHANGED fs
    /\ UNCHANGED <<otherVars, svcVars, anime_api, fs0, loop, left, kind, raw, title, tpl, wall, bg, name,
                   ret, out, seen, passVars>>

\* where the thread goes after a successful save: _export_image returns the
\* path; _export_sync first runs _cleanup(out_dir) itself
AfterSave(c) == IF kind[c] = "exporter" THEN "cleanup" ELSE "exported"

\* the encoder writes the image and the file is closed; a file unlinked after
\* the open receives the bytes but has no name any more
SaveWrite(c, ok) ==
    /\ pc[c] = "save_write"
    /\ IF ok
       THEN /\ fs' = IF fs[name[c]].st = "absent" THEN fs
                     ELSE Written(fs, name[c], "full")
            /\ exp' = [exp EXCEPT ![c] = "ok"]
            /\ pc' = [pc EXCEPT ![c] = AfterSave(c)]
            /\ cl' = [cl EXCEPT ![c] = IF kind[c] = "exporter" THEN "pending"
                                       ELSE cl[c]]
       ELSE /\ exp' = [exp EXCEPT ![c] = "err_save"]
            /\ pc' = [pc EXCEPT ![c] = "exported"]
            /\ UNCHANGED <<fs, cl>>
    /\ UNCHANGED <<otherVars, svcVars, anime_api, fs0, loop, left, kind, raw, title, tpl, wall, bg, name,
                   ret, out, seen, listed, todo>>

\* `await self._cleanup_temp_files()`: the pass has run when generate returns
CleanupAwaited(c) == [cl EXCEPT ![c] = "done"]

\* asyncio.create_task(self._cleanup_temp_files())
ScheduleCleanup(c) == [cl EXCEPT ![c] = "pending"]

\* the cleanup scheduled in a `finally`
CleanupInFinally(c) == ScheduleCleanup(c)

\* the await of the export raised: line 83 is not reached, no task is created
CleanupAfterFailure(c) == cl

\* LastPerson07_generate after `await asyncio.to_thread(self._export_image, ...)`:
\* the exception of the thread is raised here, or the cleanup task is created and
\* the path returned.  create_banner goes on in the same segment: it checks
\* src.exists() and hands the copy to a thread.
GenReturn(c) ==
    /\ pc[c] = "exported"
    /\ kind[c] \in {"engine", "service"}
    /\ loop = 0
    /\ IF exp[c] # "ok"
       THEN /\ ret' = [ret EXCEPT ![c] = exp[c]]
            /\ pc' = [pc EXCEPT ![c] = "done"]
            /\ cl' = CleanupAfterFailure(c)
            /\ UNCHANGED <<out, seen>>
       ELSE /\ cl' = ScheduleCleanup(c)
            /\ seen' = [seen EXCEPT ![c] = fs[name[c]].st]
            /\ IF kind[c] = "engine"
               THEN /\ ret' = [ret EXCEPT ![c] = "path"]
                    /\ out' = [out EXCEPT ![c] = name[c]]
                    /\ pc' = [pc EXCEPT ![c] = "done"]
               ELSE IF fs[name[c]].st = "absent"
               THEN /\ ret' = [ret EXCEPT ![c] = "err_missing"]
                    /\ pc' = [pc EXCEPT ![c] = "done"]
                    /\ UNCHANGED out
               ELSE /\ pc' = [pc EXCEPT ![c] = "copying"]
                    /\ UNCHANGED <<ret, out>>
    /\ UNCHANGED <<otherVars, svcVars, anime_api, fs, fs0, loop, left, kind, raw, title, tpl, wall,
                   bg, name, exp, listed, todo>>

\* ---------------------------------------------------------------- service
\* dest.write_bytes(src.read_bytes()) in a worker thread; dest is
\* banner_<uuid4>.jpg in the same directory
ServiceCopy(c, d) ==
    /\ pc[c] = "copying"
    /\ d \in CopyNames
    /\ IF fs[name[c]].st = "absent"
       THEN /\ exp' = [exp EXCEPT ![c] = "err_copy"]
            /\ UNCHANGED <<fs, out>>
       ELSE /\ fs' = Written(fs, d, fs[name[c]].st)
            /\ out' = [out EXCEPT ![c] = d]
            /\ UNCHANGED exp
    /\ pc' = [pc EXCEPT ![c] = "copied"]
    /\ UNCHANGED <<otherVars, svcVars, anime_api, fs0, loop, left, kind, raw, title, tpl, wall, bg, name,
                   ret, seen, passVars>>

\* create_banner after the copy: return str(dest), or re-raise
ServiceReturn(c) ==
    /\ pc[c] = "copied"
    /\ loop = 0
    /\ ret' = [ret EXCEPT ![c] = IF exp[c] = "ok" THEN "path" ELSE exp[c]]
    /\ pc' = [pc EXCEPT ![c] = "done"]
    /\ UNCHANGED <<otherVars, svcVars, anime_api, fs, fs0, loop, left, kind, raw, title, tpl, wall,
                   bg, name, exp, out, seen, passVars>>

\* --------------------------------------------------------------- exporter
\* LastPerson07_Exporter.export_async: _export_sync is handed to a thread
ExpStart(c) ==
    /\ NewCall(c, "exporter")
    /\ tpl_id' = [tpl_id EXCEPT ![c] = NoId]
    /\ pc' = [pc EXCEPT ![c] = "reserve"]
    /\ ret' = [ret EXCEPT ![c] = "none"]
    /\ raw' = [raw EXCEPT ![c] = <<>>]
    /\ title' = [title EXCEPT ![c] = <<>>]
    /\ tpl' = [tpl EXCEPT ![c] = "none"]
    /\ wall' = [wall EXCEPT ![c] = "untried"]
    /\ bg' = [bg EXCEPT ![c] = "none"]

\* export_async with a _cleanup that lets its exceptions through
ExpReturn_CleanupRaises(c) ==
    /\ pc[c] = "exported"
    /\ kind[c] = "exporter"
    /\ loop = 0
    /\ ret' = [ret EXCEPT ![c] = IF cl[c] = "aborted" THEN "err_cleanup"
                                 ELSE IF exp[c] = "ok" THEN "path" ELSE exp[c]]
    /\ out' = [out EXCEPT ![c] = IF exp[c] = "ok" /\ cl[c] # "aborted"
                                 THEN name[c] ELSE NoName]
    /\ pc' = [pc EXCEPT ![c] = "done"]
    /\ UNCHANGED <<otherVars, svcVars, anime_api, fs, fs0, loop, left, kind, raw, title, tpl, wall,
                   bg, name, exp, seen, passVars>>

\* export_async after the thread ended: the path, or the exception re-raised
ExpReturn(c) ==
    /\ pc[c] = "exported"
    /\ kind[c] = "exporter"
    /\ loop = 0
    /\ ret' = [ret EXCEPT ![c] = IF exp[c] = "ok" THEN "path" ELSE exp[c]]
    /\ out' = [out EXCEPT ![c] = IF exp[c] = "ok" THEN name[c] ELSE NoName]
    /\ pc' = [pc EXCEPT ![c] = "done"]
    /\ UNCHANGED <<otherVars, svcVars, anime_api, fs, fs0, loop, left, kind, raw, title, tpl, wall,
                   bg, name, exp, seen, passVars>>

\* ---------------------------------------------------------------- cleanup
\* who runs the pass: the event loop (_cleanup_temp_files) or the export thread
OnLoop(c) == kind[c] # "exporter"

\* the pass ends: the loop is free again, the export thread goes on to return
PassEnds(c, how) ==
    /\ cl' = [cl EXCEPT ![c] = how]
    /\ loop' = IF OnLoop(c) THEN 0 ELSE loop
    /\ pc' = [pc EXCEPT ![c] = IF OnLoop(c) THEN pc[c] ELSE "exported"]

\* the test with < for <=
BelowLimit(S) == Cardinality(S) < KeepFiles

\* len(files) <= self._keep_files
WithinLimit(S) == Cardinality(S) <= KeepFiles

\* files = list(dir.glob("banner_*.jpg")); if len(files) <= keep: return
PassList(c) ==
    /\ cl[c] = "pending"
    /\ OnLoop(c) => loop = 0
    /\ listed' = [listed EXCEPT ![c] = Glob(fs)]
    /\ IF WithinLimit(Glob(fs))
       THEN PassEnds(c, "done")
       ELSE /\ cl' = [cl EXCEPT ![c] = "listed"]
            /\ loop' = IF OnLoop(c) THEN c ELSE loop
            /\ UNCHANGED pc
    /\ UNCHANGED <<otherVars, svcVars, anime_api, fs, fs0, left, kind, raw, title, tpl, wall, bg,
                   name, exp, ret, out, seen, todo>>

\* files.sort(key=stat().st_mtime, reverse=True); to_remove = files[keep:].
\* stat of a file that has vanished raises FileNotFoundError, which the outer
\* `except Exception` of the pass catches: the pass ends there.
PassSort(c, s) ==
    /\ cl[c] = "listed"
    /\ IF listed[c] \subseteq Present(fs)
       THEN /\ s \in SortedDesc(listed[c], fs)
            /\ IF ToRemove(s) = <<>>
               THEN PassEnds(c, "done")
               ELSE /\ cl' = [cl EXCEPT ![c] = "removing"]
                    /\ UNCHANGED <<loop, pc>>
            /\ todo' = [todo EXCEPT ![c] = ToRemove(s)]
       ELSE /\ s = <<>>
            /\ PassEnds(c, "aborted")
            /\ UNCHANGED todo
    /\ UNCHANGED <<otherVars, svcVars, anime_api, fs, fs0, left, kind, raw, title, tpl, wall, bg,
                   name, exp, ret, out, seen, listed>>

\* one turn of `for p in to_remove: try: p.unlink() except Exception: ...`;
\* unlink of a file that is gone raises FileNotFoundError, which the inner
\* except swallows
PassUnlink(c) ==
    /\ cl[c] = "removing"
    /\ todo[c] # <<>>
    /\ fs' = Unlinked(fs, Head(todo[c]))
    /\ raised' = [raised EXCEPT ![c] = IF fs[Head(todo[c])].st = "absent"
                                       THEN raised[c] \cup {Head(todo[c])}
                                       ELSE raised[c]]
    /\ todo' = [todo EXCEPT ![c] = Tail(todo[c])]
    /\ IF Tail(todo[c]) = <<>>
       THEN PassEnds(c, "done")
       ELSE UNCHANGED <<cl, loop, pc>>
    /\ UNCHANGED <<imageVars, appVars, svcVars, anime_api, fs0, left, kind, raw, title, tpl, wall, bg, name,
                   exp, ret, out, seen, listed>>

\* the pass without the inner try/except: a raising unlink ends the pass
PassUnlinkFails_Aborts(c) ==
    /\ cl[c] = "removing"
    /\ todo[c] # <<>>
    /\ fs[Head(todo[c])].st # "absent"
    /\ raised' = [raised EXCEPT ![c] = raised[c] \cup {Head(todo[c])}]
    /\ PassEnds(c, "aborted")
    /\ UNCHANGED <<imageVars, appVars, svcVars, anime_api, fs, fs0, left, kind, raw, title, tpl, wall, bg,
                   name, exp, ret, out, seen, listed, todo>>

\* one turn of the loop in which p.unlink() raises for a file that is there
\* (PermissionError, OSError): the inner except swallows it, the file stays and
\* the loop goes on with the next file
PassUnlinkFails(c) ==
    /\ cl[c] = "removing"
    /\ todo[c] # <<>>
    /\ fs[Head(todo[c])].st # "absent"
    /\ raised' = [raised EXCEPT ![c] = raised[c] \cup {Head(todo[c])}]
    /\ todo' = [todo EXCEPT ![c] = Tail(todo[c])]
    /\ IF Tail(todo[c]) = <<>>
       THEN PassEnds(c, "done")
       ELSE UNCHANGED <<cl, loop, pc>>
    /\ UNCHANGED <<imageVars, appVars, svcVars, anime_api, fs, fs0, left, kind, raw, title, tpl, wall, bg,
                   name, exp, ret, out, seen, listed>>

\* glob or stat raises for a reason other than a vanished file (the directory
\* is unreadable): the outer `except Exception` catches it and the pass ends
PassFails(c, at) ==
    /\ at \in {"glob", "stat"}
    /\ at = "glob" => (cl[c] = "pending" /\ (OnLoop(c) => loop = 0))
    /\ at = "stat" => cl[c] = "listed"
    /\ PassEnds(c, "aborted")
    /\ UNCHANGED <<otherVars, svcVars, anime_api, fs, fs0, left, kind, raw, title, tpl, wall, bg,
                   name, exp, ret, out, seen, listed, todo>>

\* -------------------------------------------------------------- compositor
\* the fixed chain of LastPerson07_Compositor.composite, in the order of the calls
Stages == <<"contrast", "color_grade", "sharpness", "gradient_overlay", "vignette">>

StageSet == {Stages[i] : i \in 1..Len(Stages)}

\* img = stage(img) for the stages from the i-th on, inside the one `try` of
\* composite: the first stage that raises leaves the try block
RECURSIVE Chain(_, _, _)
Chain(img, i, bad) ==
    IF i > Len(Stages) THEN [ok |-> TRUE, img |-> img]
    ELSE IF Stages[i] \in bad THEN [ok |-> FALSE, img |-> img]
    ELSE Chain(Append(img, Stages[i]), i + 1, bad)

\* composite(background): the chained canvas, or `return background` from the
\* except branch
Composite(b, bad) ==
    IF Chain(b, 1, bad).ok THEN Chain(b, 1, bad).img ELSE b

\* the canvases _load_background hands on
Backgrounds == {<<"template">>, <<"wallpaper">>, <<"gradient">>}

CompositeCall ==
    /\ comp_pc = "ready"
    /\ background # <<>>
    /\ composed' = Composite(background, failing)
    /\ comp_pc' = "returned"
    /\ UNCHANGED <<engineVars, raised, appVars, fitVars, canvasVars, background, failing>>

\* ---------------------------------------------------------------- auto-fit
Max(a, b) == IF a >= b THEN a ELSE b

\* main_size = max(36, self.width // 18)
MainSize == Max(36, CanvasWidth \div 18)

\* w_limit = int(self.width * 0.9)
WidthLimit == (CanvasWidth * 9) \div 10

\* bbox[2] - bbox[0] of textbbox((0, 0), text, font): the advance of the text
\* at the font's size
TextWidth(em, size) == em * size

\* new_size = max(18, int(fm.size * 0.9))
Shrunk(size) == Max(MinSize, (size * 9) \div 10)

\* fm = font_main; if hasattr(fm, "getsize"): ... bbox = textbbox(...).
\* Without getsize the loop is skipped and font_main is used as it is.
FitStart ==
    /\ routine = "render"
    /\ fit_pc = "start"
    /\ fit_pc' = IF has_getsize THEN "test" ELSE "done"
    /\ UNCHANGED <<engineVars, raised, appVars, compVars, canvasVars, routine, fm_size, text_em, has_getsize>>

\* while bbox[2] - bbox[0] > w_limit and getattr(fm, "size", None):
FitTest ==
    /\ routine = "render"
    /\ fit_pc = "test"
    /\ fit_pc' = IF TextWidth(text_em, fm_size) > WidthLimit /\ fm_size # 0
                 THEN "shrink" ELSE "done"
    /\ UNCHANGED <<engineVars, raised, appVars, compVars, canvasVars, routine, fm_size, text_em, has_getsize>>

\* the body of the loop: the font rebuilt at new_size and the text measured
\* again, or `break` when ImageFont.truetype raises
FitShrink(ok) ==
    /\ routine = "render"
    /\ fit_pc = "shrink"
    /\ IF ok
       THEN /\ fm_size' = Shrunk(fm_size)
            /\ fit_pc' = "test"
       ELSE /\ fit_pc' = "done"
            /\ UNCHANGED fm_size
    /\ UNCHANGED <<engineVars, raised, appVars, compVars, canvasVars, routine, text_em, has_getsize>>

\* LastPerson07_Typography.auto_font, one turn of `while size > 20`, or the
\* `return ImageFont.truetype(font_path, 20)` after the loop
AutoFontTurn ==
    /\ routine = "auto_font"
    /\ fit_pc = "test"
    /\ IF fm_size > AutoFloor
       THEN IF TextWidth(text_em, fm_size) <= WidthLimit
            THEN /\ fit_pc' = "done"
                 /\ UNCHANGED fm_size
            ELSE /\ fm_size' = fm_size - AutoStep
                 /\ UNCHANGED fit_pc
       ELSE /\ fm_size' = AutoFloor
            /\ fit_pc' = "done"
    /\ UNCHANGED <<engineVars, raised, appVars, compVars, canvasVars, routine, text_em, has_getsize>>

\* ---------------------------------------------------------- raster buffers
\* Every Pillow call of the pipeline that yields an image (Image.open + copy,
\* convert, Image.new, alpha_composite, filter, autocontrast) allocates a new
\* buffer; ImageDraw draws in place on the image it was made for.  A buffer is
\* in use while a local of some call refers to it.
FreeBufs == {b \in Bufs : heap[b] = 0}

\* a buffer kept on the engine object and handed to every call
CachedBuffer == CHOOSE b \in Bufs : \A x \in Bufs : b <= x

\* the buffer of a newly created image: one that is not in use
NewBuffer == CHOOSE b \in FreeBufs : \A x \in FreeBufs : b <= x

\* the creator of a buffer that comes into use
Created(b, c) == [heap EXCEPT ![b] = IF heap[b] = 0 THEN c ELSE heap[b]]

\* the locals S of call c go out of scope: a buffer nothing refers to is freed
Dropped(h, S, c) == [b \in Bufs |-> IF b \in S /\ h[b] = c THEN 0 ELSE h[b]]

\* bg = await self._load_background(template_path): _open_and_resize returns
\* im.copy()
CanvasLoad(c) ==
    /\ cv_pc[c] = "idle"
    /\ FreeBufs # {}
    /\ heap' = Created(NewBuffer, c)
    /\ refs' = [refs EXCEPT ![c] = {NewBuffer}]
    /\ canvas' = [canvas EXCEPT ![c] = NewBuffer]
    /\ cv_pc' = [cv_pc EXCEPT ![c] = "loaded"]
    /\ UNCHANGED <<engineVars, raised, appVars, compVars, fitVars, work>>

\* bg = await asyncio.to_thread(self._apply_overlay, bg): base, overlay and
\* composed are new images; the local bg is rebound to composed
CanvasOverlay(c) ==
    /\ cv_pc[c] = "loaded"
    /\ FreeBufs # {}
    /\ heap' = Dropped(Created(NewBuffer, c), {canvas[c]}, c)
    /\ refs' = [refs EXCEPT ![c] = {NewBuffer}]
    /\ canvas' = [canvas EXCEPT ![c] = NewBuffer]
    /\ cv_pc' = [cv_pc EXCEPT ![c] = "overlaid"]
    /\ UNCHANGED <<engineVars, raised, appVars, compVars, fitVars, work>>

\* _render_text_and_watermark, lines 199-204: base = bg.convert("RGBA") and
\* draw = ImageDraw.Draw(base)
CanvasRenderBase(c) ==
    /\ cv_pc[c] = "overlaid"
    /\ FreeBufs # {}
    /\ heap' = Created(NewBuffer, c)
    /\ refs' = [refs EXCEPT ![c] = refs[c] \cup {NewBuffer}]
    /\ work' = [work EXCEPT ![c] = NewBuffer]
    /\ cv_pc' = [cv_pc EXCEPT ![c] = "drawing"]
    /\ UNCHANGED <<engineVars, raised, appVars, compVars, fitVars, canvas>>

\* lines 205-257: glow, stroke, fill and watermark, drawn in place through draw
CanvasRenderDraw(c) ==
    /\ cv_pc[c] = "drawing"
    /\ work[c] \in refs[c]
    /\ cv_pc' = [cv_pc EXCEPT ![c] = "drawn"]
    /\ UNCHANGED <<engineVars, raised, appVars, compVars, fitVars, heap, refs, canvas, work>>

\* lines 261-267: the final image is a new one; the locals of the render go
\* out of scope; generate keeps bg and output_image
CanvasRenderReturn(c) ==
    /\ cv_pc[c] = "drawn"
    /\ FreeBufs # {}
    /\ heap' = Dropped(Created(NewBuffer, c), {work[c]}, c)
    /\ refs' = [refs EXCEPT ![c] = {canvas[c], NewBuffer}]
    /\ canvas' = [canvas EXCEPT ![c] = NewBuffer]
    /\ work' = [work EXCEPT ![c] = 0]
    /\ cv_pc' = [cv_pc EXCEPT ![c] = "rendered"]
    /\ UNCHANGED <<engineVars, raised, appVars, compVars, fitVars>>

\* _export_image reads output_image; generate returns and its locals go
CanvasExport(c) ==
    /\ cv_pc[c] = "rendered"
    /\ canvas[c] \in refs[c]
    /\ heap' = Dropped(heap, refs[c], c)
    /\ refs' = [refs EXCEPT ![c] = {}]
    /\ canvas' = [canvas EXCEPT ![c] = 0]
    /\ cv_pc' = [cv_pc EXCEPT ![c] = "done"]
    /\ UNCHANGED <<engineVars, raised, appVars, compVars, fitVars, work>>

\* the caller makes the next call
CanvasAgain(c) ==
    /\ cv_pc[c] = "done"
    /\ cv_pc' = [cv_pc EXCEPT ![c] = "idle"]
    /\ UNCHANGED <<engineVars, raised, appVars, compVars, fitVars, heap, refs, canvas, work>>

\* ---------------------------------------------------------------- database
\* Coroutines on one event loop: a segment between two awaits is one action.
\* asyncio.Lock is not reentrant and serves its waiters first come first
\* served: release() hands the lock to the first waiter.
Waiting == {lock_waiters[i] : i \in 1..Len(lock_waiters)}

\* acquire() of a lock that excludes nobody
CanAcquire_NoLock == TRUE

\* `async with self._connect_lock` is entered without waiting: the lock is free
CanAcquire == connect_lock = 0 /\ lock_waiters = <<>>

\* the wait of call p in acquire() is over
Granted(p) == connect_lock = p /\ p \notin Waiting

\* leaving `async with self._connect_lock`
Release ==
    /\ connect_lock' = IF lock_waiters = <<>> THEN 0 ELSE Head(lock_waiters)
    /\ lock_waiters' = IF lock_waiters = <<>> THEN <<>> ELSE Tail(lock_waiters)

\* how connect() ends when it returns, and _ensure() after its test
\* `if self.db is None: raise`: "connected" when a ping has succeeded on the
\* client the object holds at that moment
Ended(op, held, d, pg) ==
    IF op = "ensure" /\ d = 0 THEN "raised_no_db"
    ELSE IF held # 0 /\ held \in pg THEN "connected" ELSE "unconnected"

\* what the calls on the Database object leave alone
notDbVars == <<engineVars, raised, imageVars, botVars, authVars>>

\* caller p makes a call
DbEnter(p, op) ==
    /\ db_pc[p] \in {"idle", "done"}
    /\ db_op' = [db_op EXCEPT ![p] = op]

\* the call of p ends
DbEnd(p, how) ==
    /\ db_pc' = [db_pc EXCEPT ![p] = "done"]
    /\ db_ret' = [db_ret EXCEPT ![p] = how]

\* the n-th turn of `for attempt in range(retries)` up to the await of the
\* ping: a client is constructed and stored in self.client, self.db is set
Attempt(p, n) ==
    /\ created < MaxClients
    /\ created' = created + 1
    /\ client' = created + 1
    /\ db' = created + 1
    /\ own' = [own EXCEPT ![p] = created + 1]
    /\ attempt' = [attempt EXCEPT ![p] = n]
    /\ db_pc' = [db_pc EXCEPT ![p] = "ping"]
    /\ db_ret' = [db_ret EXCEPT ![p] = "none"]

\* connect() or _ensure() on an object that holds a client: `return` at line 45
ConnectFast(p, op) ==
    /\ op \in {"connect", "ensure"}
    /\ DbEnter(p, op)
    /\ client # 0
    /\ DbEnd(p, Ended(op, client, db, pinged))
    /\ attempt' = [attempt EXCEPT ![p] = 0]
    /\ own' = [own EXCEPT ![p] = 0]
    /\ UNCHANGED <<notDbVars, client, db, connect_lock, lock_waiters, indexes_ready,
                   created, pinged>>

\* connect() without a client and with the lock free: lines 44-68 in one segment
ConnectLock(p, op) ==
    /\ op \in {"connect", "ensure"}
    /\ DbEnter(p, op)
    /\ client = 0
    /\ CanAcquire
    /\ connect_lock' = p
    /\ Attempt(p, 1)
    /\ UNCHANGED <<notDbVars, lock_waiters, indexes_ready, pinged>>

\* connect() without a client while the lock is held: the call waits at line 47
ConnectWait(p, op) ==
    /\ op \in {"connect", "ensure"}
    /\ DbEnter(p, op)
    /\ client = 0
    /\ ~CanAcquire
    /\ lock_waiters' = Append(lock_waiters, p)
    /\ db_pc' = [db_pc EXCEPT ![p] = "lock_wait"]
    /\ db_ret' = [db_ret EXCEPT ![p] = "none"]
    /\ attempt' = [attempt EXCEPT ![p] = 0]
    /\ own' = [own EXCEPT ![p] = 0]
    /\ UNCHANGED <<notDbVars, client, db, connect_lock, indexes_ready, created, pinged>>

\* the lock is handed to the waiting call: the second test of self.client
\* (line 49), then the first attempt
ConnectGranted(p) ==
    /\ db_pc[p] = "lock_wait"
    /\ Granted(p)
    /\ IF client # 0
       THEN /\ Release
            /\ DbEnd(p, Ended(db_op[p], client, db, pinged))
            /\ UNCHANGED <<client, db, created, attempt, own>>
       ELSE /\ Attempt(p, 1)
            /\ UNCHANGED <<connect_lock, lock_waiters>>
    /\ UNCHANGED <<notDbVars, indexes_ready, pinged, db_op>>

\* `await self.client.admin.command("ping")` returned (ok) or raised.  After a
\* ping that succeeded connect calls init_indexes while it holds the lock:
\* init_indexes returns at line 129 when the indexes are ready, and else waits
\* at line 131 for the lock its own caller holds
PingDone(p, ok) ==
    /\ db_pc[p] = "ping"
    /\ IF ok
       THEN /\ pinged' = pinged \cup {own[p]}
            /\ IF indexes_ready
               THEN /\ Release
                    /\ DbEnd(p, Ended(db_op[p], client, db, pinged'))
               ELSE /\ lock_waiters' = Append(lock_waiters, p)
                    /\ db_pc' = [db_pc EXCEPT ![p] = "idx_lock_wait"]
                    /\ UNCHANGED <<connect_lock, db_ret>>
       ELSE /\ db_pc' = [db_pc EXCEPT ![p] = "sleep"]
            /\ UNCHANGED <<pinged, connect_lock, lock_waiters, db_ret>>
    /\ UNCHANGED <<notDbVars, client, db, indexes_ready, created, db_op, attempt, own>>

\* `await asyncio.sleep(2)` is over: the next attempt, or after the last one
\* `raise RuntimeError` (line 84), which leaves the lock
SleepDone(p) ==
    /\ db_pc[p] = "sleep"
    /\ IF attempt[p] < Retries
       THEN /\ Attempt(p, attempt[p] + 1)
            /\ UNCHANGED <<connect_lock, lock_waiters>>
       ELSE /\ Release
            /\ DbEnd(p, "raised")
            /\ UNCHANGED <<client, db, created, attempt, own>>
    /\ UNCHANGED <<notDbVars, indexes_ready, pinged, db_op>>

\* Database.close() on an object that holds a client
Close ==
    /\ client # 0
    /\ client' = 0
    /\ db' = 0
    /\ indexes_ready' = FALSE
    /\ UNCHANGED <<notDbVars, connect_lock, lock_waiters, created, pinged, db_op, db_pc,
                   attempt, own, db_ret>>

\* init_indexes() called on its own (bot.py:78): return when the indexes are
\* ready; else the lock is taken or waited for.  Under the lock `self.db.users`
\* raises when db is None, which the except of line 168 catches.
IndexesCall(p) ==
    /\ DbEnter(p, "init_indexes")
    /\ attempt' = [attempt EXCEPT ![p] = 0]
    /\ own' = [own EXCEPT ![p] = 0]
    /\ IF indexes_ready \/ (CanAcquire /\ db = 0)
       THEN /\ DbEnd(p, "returned")
            /\ UNCHANGED <<connect_lock, lock_waiters>>
       ELSE IF CanAcquire
       THEN /\ connect_lock' = p
            /\ db_pc' = [db_pc EXCEPT ![p] = "idx_create"]
            /\ db_ret' = [db_ret EXCEPT ![p] = "none"]
            /\ UNCHANGED lock_waiters
       ELSE /\ lock_waiters' = Append(lock_waiters, p)
            /\ db_pc' = [db_pc EXCEPT ![p] = "idx_lock_wait"]
            /\ db_ret' = [db_ret EXCEPT ![p] = "none"]
            /\ UNCHANGED connect_lock
    /\ UNCHANGED <<notDbVars, client, db, indexes_ready, created, pinged>>

\* the lock is handed to a call waiting at line 131: the second test of
\* _indexes_ready, then the index creation
IndexesGranted(p) ==
    /\ db_pc[p] = "idx_lock_wait"
    /\ Granted(p)
    /\ IF indexes_ready \/ db = 0
       THEN /\ Release
            /\ DbEnd(p, "returned")
       ELSE /\ db_pc' = [db_pc EXCEPT ![p] = "idx_create"]
            /\ UNCHANGED <<connect_lock, lock_waiters, db_ret>>
    /\ UNCHANGED <<notDbVars, client, db, indexes_ready, created, pinged, db_op, attempt, own>>

\* the four create_index calls returned (ok), or one of them raised
IndexesCreated(p, ok) ==
    /\ db_pc[p] = "idx_create"
    /\ indexes_ready' = (ok \/ indexes_ready)
    /\ Release
    /\ DbEnd(p, "returned")
    /\ UNCHANGED <<notDbVars, client, db, created, pinged, db_op, attempt, own>>

\* --------------------------------------------------------------------- bot
\* LastPerson07_start_bot as one task: a segment between two awaits is one
\* action, and what the awaited call does (return, raise) is an input.  The
\* task is cancelled at most once, at the await it is suspended in.
Min(a, b) == IF a <= b THEN a ELSE b

\* the doubling without the cap
NextBackoff_Uncapped(b) == b * 2

\* backoff = min(max_backoff, backoff * 2)
NextBackoff(b) == Min(MaxBackoff, b * 2)

\* the `except asyncio.CancelledError` branch reduced to `break`
OnCancelled_Break == "break"

\* the `except asyncio.CancelledError` branch: shutdown, then break
OnCancelled == "shutdown"

\* what the bot task leaves alone
notBotVars == <<engineVars, raised, imageVars, dbVars, authVars>>

\* the awaits of LastPerson07_shutdown still to come on path x ("crash",
\* "cancel"): dp.shutdown() when there is a dispatcher, then
\* bot.session.close() and bot.close() when there is a bot
ShutdownStages(x) ==
    (IF dp_made THEN <<x \o "_dp">> ELSE <<>>) \o (IF bot_made THEN <<x \o "_bot">> ELSE <<>>)

\* where the task is after LastPerson07_shutdown has returned on path x:
\* asyncio.sleep(backoff) in the crash branch, out of the loop after `break`
AfterShutdown(x) == IF x = "crash" THEN "sleep" ELSE "exited"

\* LastPerson07_shutdown is called on path x and runs to its first await, or
\* to its end when there is neither dispatcher nor bot
EnterShutdown(x) ==
    /\ IF ShutdownStages(x) = <<>>
       THEN /\ bot_pc' = AfterShutdown(x)
            /\ down' = TRUE
            /\ delay' = IF x = "crash" THEN backoff ELSE delay
            /\ exit_how' = IF x = "crash" THEN exit_how ELSE "cancelled"
       ELSE /\ bot_pc' = Head(ShutdownStages(x))
            /\ UNCHANGED <<down, delay, exit_how>>

\* an exception other than CancelledError reaches `except Exception` (line 157)
Crashed ==
    /\ crashes < MaxCrashes
    /\ crashes' = crashes + 1
    /\ EnterShutdown("crash")

\* on_startup up to the end of its awaits of db.connect() and
\* db.init_indexes(): they return (ok), or config.validate() or db.connect()
\* raised.  On return Bot and Dispatcher are created if they are None,
\* routers and middlewares are registered unless _registered is set, and
\* set_my_commands is awaited.
BotStartup(ok) ==
    /\ bot_pc = "startup"
    /\ IF ok
       THEN /\ bot_made' = TRUE
            /\ bot_closed' = IF bot_made THEN bot_closed ELSE FALSE
            /\ dp_made' = TRUE
            /\ dp_down' = IF dp_made THEN dp_down ELSE FALSE
            /\ reg_count' = (IF dp_made THEN reg_count ELSE 0)
                            + (IF registered THEN 0 ELSE 1)
            /\ registered' = TRUE
            /\ bot_pc' = "commands"
            /\ UNCHANGED <<crashes, down, delay, exit_how>>
       ELSE /\ Crashed
            /\ UNCHANGED <<bot_made, bot_closed, dp_made, dp_down, reg_count, registered>>
    /\ UNCHANGED <<notBotVars, backoff, startups, cancel_at>>

\* LastPerson07_setup_commands returned (it swallows what set_my_commands
\* raises); bot and dp are set, so polling starts
BotCommands ==
    /\ bot_pc = "commands"
    /\ bot_pc' = "polling"
    /\ UNCHANGED <<notBotVars, backoff, crashes, delay, startups, cancel_at, down,
                   bot_made, bot_closed, dp_made, dp_down, registered, reg_count, exit_how>>

\* dp.start_polling returned (`break`, line 149) or raised
BotPollingEnds(normal) ==
    /\ bot_pc = "polling"
    /\ IF normal
       THEN /\ bot_pc' = "exited"
            /\ exit_how' = "normal"
            /\ UNCHANGED <<crashes, down, delay>>
       ELSE Crashed
    /\ UNCHANGED <<notBotVars, backoff, startups, cancel_at, bot_made, bot_closed,
                   dp_made, dp_down, registered, reg_count>>

\* `await dp.shutdown()` returned (ok) or raised, which shutdown logs
BotShutdownDp(x, ok) ==
    /\ bot_pc = x \o "_dp"
    /\ dp_down' = (ok \/ dp_down)
    /\ IF bot_made
       THEN /\ bot_pc' = x \o "_bot"
            /\ UNCHANGED <<down, delay, exit_how>>
       ELSE /\ bot_pc' = AfterShutdown(x)
            /\ down' = TRUE
            /\ delay' = IF x = "crash" THEN backoff ELSE delay
            /\ exit_how' = IF x = "crash" THEN exit_how ELSE "cancelled"
    /\ UNCHANGED <<notBotVars, backoff, crashes, startups, cancel_at, bot_made,
                   bot_closed, dp_made, registered, reg_count>>

\* `await bot.session.close()` returned (ok) or raised; shutdown returns, and
\* the crash branch goes to asyncio.sleep(backoff), the cancel branch to break
BotShutdownBot(x, ok) ==
    /\ bot_pc = x \o "_bot"
    /\ bot_closed' = (ok \/ bot_closed)
    /\ bot_pc' = AfterShutdown(x)
    /\ down' = TRUE
    /\ delay' = IF x = "crash" THEN backoff ELSE delay
    /\ exit_how' = IF x = "crash" THEN exit_how ELSE "cancelled"
    /\ UNCHANGED <<notBotVars, backoff, crashes, startups, cancel_at, bot_made,
                   dp_made, dp_down, registered, reg_count>>

\* asyncio.sleep(backoff) is over: the backoff is doubled and the loop starts
\* over with on_startup
BotSleepDone ==
    /\ bot_pc = "sleep"
    /\ backoff' = NextBackoff(backoff)
    /\ bot_pc' = "startup"
    /\ startups' = startups + 1
    /\ down' = FALSE
    /\ UNCHANGED <<notBotVars, crashes, delay, cancel_at, bot_made, bot_closed,
                   dp_made, dp_down, registered, reg_count, exit_how>>

\* the awaits inside the `try` of the loop
InTry == {"startup", "commands", "polling"}

\* where the task is suspended, as the claim names it
PointOf(p) ==
    IF p \in {"startup", "commands"} THEN "startup"
    ELSE IF p \in {"polling", "sleep"} THEN p
    ELSE "shutdown"

\* Task.cancel(): CancelledError is raised at the await the task is suspended
\* in.  Inside the `try` it reaches `except asyncio.CancelledError`; raised
\* inside an except branch (the shutdown or the sleep of the crash branch, the
\* shutdown of the cancel branch) it leaves the function.
BotCancel ==
    /\ cancel_at = "none"
    /\ bot_pc # "exited"
    /\ cancel_at' = PointOf(bot_pc)
    /\ IF bot_pc \in InTry /\ OnCancelled = "shutdown"
       THEN EnterShutdown("cancel")
       ELSE /\ bot_pc' = "exited"
            /\ exit_how' = IF bot_pc \in InTry THEN "cancelled" ELSE "propagated"
            /\ UNCHANGED <<down, delay>>
    /\ UNCHANGED <<notBotVars, backoff, crashes, startups, bot_made, bot_closed,
                   dp_made, dp_down, registered, reg_count>>

\* --------------------------------------------------------- auth middleware
\* LastPerson07_AuthMiddleware.__call__ for one event after the other; what
\* each awaited call does (the ban check, the notice, the upsert, the handler)
\* is an input.
EventTypes == {"Message", "CallbackQuery", "Update"}

\* what the middleware leaves alone
notAuthVars == <<engineVars, raised, imageVars, dbVars, botVars>>

\* the notice raising, without the try of lines 51-63
NoticeRaised_Uncaught == "outer_except"

\* an exception of the notice: `except Exception: pass`, then `return`
NoticeRaised == "return"

\* __call__ up to its first await: from_user extracted; an event without a
\* user goes to the handler at once (line 38), else db.is_banned is awaited
AuthEvent(t, u) ==
    /\ auth_pc \in {"idle", "done"}
    /\ events < MaxEvents
    /\ events' = events + 1
    /\ ev_type' = t
    /\ ev_user' = u
    /\ ban' = "none"
    /\ notice' = "none"
    /\ upsert' = "none"
    /\ auth_ret' = "none"
    /\ IF u
       THEN /\ auth_pc' = "ban_check"
            /\ calls' = 0
       ELSE /\ auth_pc' = "handler"
            /\ calls' = 1
    /\ UNCHANGED notAuthVars

\* `banned = await db.is_banned(user_id)`: True ("banned"), False ("clear":
\* no ban, or find_one raised inside is_banned), or an exception of _ensure
\* ("raised"), for which line 47 sets banned = False.  For a banned user the
\* notice is awaited; an Update without callback_query has none to send.
AuthBanChecked(r, cq) ==
    /\ auth_pc = "ban_check"
    /\ r \in {"banned", "clear", "raised"}
    /\ ban' = r
    /\ IF r = "banned"
       THEN IF ev_type = "Update" /\ ~cq
            THEN /\ auth_pc' = "done"
                 /\ auth_ret' = "stopped"
                 /\ notice' = "skipped"
            ELSE /\ auth_pc' = "notice"
                 /\ UNCHANGED <<auth_ret, notice>>
       ELSE /\ cq
            /\ auth_pc' = "upsert"
            /\ UNCHANGED <<auth_ret, notice>>
    /\ UNCHANGED <<notAuthVars, ev_type, ev_user, upsert, calls, events>>

\* `await event.answer(...)` returned (ok) or raised; `return` at line 64
AuthNotice(ok) ==
    /\ auth_pc = "notice"
    /\ notice' = IF ok THEN "sent" ELSE "failed"
    /\ IF ok \/ NoticeRaised = "return"
       THEN /\ auth_pc' = "done"
            /\ auth_ret' = "stopped"
            /\ UNCHANGED calls
       ELSE /\ auth_pc' = "handler_again"
            /\ calls' = calls + 1
            /\ UNCHANGED auth_ret
    /\ UNCHANGED <<notAuthVars, ev_type, ev_user, ban, upsert, events>>

\* `await db.upsert_user(...)` returned (ok) or raised, which line 71 catches;
\* then `return await handler(event, data)` (line 75)
AuthUpserted(ok) ==
    /\ auth_pc = "upsert"
    /\ upsert' = IF ok THEN "ok" ELSE "failed"
    /\ auth_pc' = "handler"
    /\ calls' = calls + 1
    /\ UNCHANGED <<notAuthVars, ev_type, ev_user, ban, notice, auth_ret, events>>

\* the handler awaited at line 38 or 75 returned (ok) or raised: the outer
\* `except Exception` (line 77) catches what it raised and awaits the handler
\* again (line 80)
AuthHandlerDone(ok) ==
    /\ auth_pc = "handler"
    /\ IF ok
       THEN /\ auth_pc' = "done"
            /\ auth_ret' = "returned"
            /\ UNCHANGED calls
       ELSE /\ auth_pc' = "handler_again"
            /\ calls' = calls + 1
            /\ UNCHANGED auth_ret
    /\ UNCHANGED <<notAuthVars, ev_type, ev_user, ban, notice, upsert, events>>

\* the handler awaited at line 80 returned (ok) or raised, which leaves
\* __call__
AuthHandlerAgainDone(ok) ==
    /\ auth_pc = "handler_again"
    /\ auth_pc' = "done"
    /\ auth_ret' = IF ok THEN "returned" ELSE "raised"
    /\ UNCHANGED <<notAuthVars, ev_type, ev_user, ban, notice, upsert, calls, events>>

\* ---------------------------------------------------------- specifications
\* LastPerson07_generate from its entry to the hand-over of _export_image to a
\* thread (lines 59-79), for a call whose template loads and whose rendering
\* succeeds.  These stages read and write nothing that calls share, so the
\* specification of the concurrent calls takes them in one step, for one title.
GenToExport(c, k) ==
    /\ NewCall(c, k)
    /\ k \in {"engine", "service"}
    /\ tpl_id' = [tpl_id EXCEPT ![c] = IF k = "service" THEN "1" ELSE NoId]
    /\ raw' = [raw EXCEPT ![c] = <<"a">>]
    /\ title' = [title EXCEPT ![c] = Truncated(<<"a">>)]
    /\ tpl' = [tpl EXCEPT ![c] = "ok"]
    /\ wall' = [wall EXCEPT ![c] = "untried"]
    /\ bg' = [bg EXCEPT ![c] = "template"]
    /\ ret' = [ret EXCEPT ![c] = "none"]
    /\ pc' = [pc EXCEPT ![c] = "reserve"]

Export(c) ==
    \/ \E r \in {"ok", "err_mkdir", "err_mkstemp"} :
         \E n \in TmpNames \cup {NoName} : ExportReserve(c, r, n)
    \/ \E ok \in BOOLEAN : SaveOpen(c, ok)
    \/ \E ok \in BOOLEAN : SaveWrite(c, ok)

Pass(c) ==
    \/ PassList(c)
    \/ /\ cl[c] = "listed"
       /\ \E s \in SortedDesc(listed[c], fs) \cup {<<>>} : PassSort(c, s)
    \/ PassUnlink(c)

\* concurrent calls of generate and create_banner on one directory, from the
\* export on
Next ==
    \/ \E c \in Calls : \E k \in {"engine", "service"} : GenToExport(c, k)
    \/ \E c \in Calls : Export(c)
    \/ \E c \in Calls : GenReturn(c)
    \/ \E c \in Calls : \E d \in CopyNames : ServiceCopy(c, d)
    \/ \E c \in Calls : ServiceReturn(c)
    \/ \E c \in Calls : Pass(c)

Spec == Init /\ [][Next]_vars

\* the same with calls of Exporter.export_async, whose cleanup passes run in
\* the worker threads
NextThreads ==
    \/ \E c \in Calls : \E k \in {"engine", "service"} : GenToExport(c, k)
    \/ \E c \in Calls : ExpStart(c)
    \/ \E c \in Calls : Export(c)
    \/ \E c \in Calls : GenReturn(c)
    \/ \E c \in Calls : \E d \in CopyNames : ServiceCopy(c, d)
    \/ \E c \in Calls : ServiceReturn(c)
    \/ \E c \in Calls : ExpReturn(c)
    \/ \E c \in Calls : Pass(c)

SpecThreads == Init /\ [][NextThreads]_vars

\* one call after the other, every stage and every outcome of each stage
GenCalls == {1}

\* the template ids of the calls of SpecGen: one per state of the mapped file
GenIds == {"1", "2", "3"}

\* what the path given to the engine leads to
TemplatePaths == {"none", "missing", "corrupt", "ok"}

NextGen ==
    \/ \E c \in GenCalls :
         /\ Fresh(c)
         /\ \E k \in {"engine", "service"} : \E id \in GenIds \cup {NoId} :
              \E t \in TemplatePaths :
                /\ k = "service" => t = ServiceTemplate(id)
                /\ k = "engine" => id = NoId
                /\ \E r \in RawTitles : GenStart(c, k, id, t, r)
    \/ \E c \in GenCalls : TplOpened(c)
    \/ \E c \in GenCalls : \E w \in {"data", "nodata", "exception"} : WallFetched(c, w)
    \/ \E c \in GenCalls : \E ok \in BOOLEAN : WallDecoded(c, ok)
    \/ \E c \in GenCalls : OverlayDone(c)
    \/ \E c \in GenCalls : \E ok \in BOOLEAN : RenderDone(c, ok)
    \/ \E c \in GenCalls : ExpStart(c)
    \/ \E c \in GenCalls : Export(c)
    \/ \E c \in GenCalls : GenReturn(c)
    \/ \E c \in GenCalls : \E d \in CopyNames : ServiceCopy(c, d)
    \/ \E c \in GenCalls : ServiceReturn(c)
    \/ \E c \in GenCalls : ExpReturn(c)
    \/ \E c \in GenCalls : Pass(c)

InitGen ==
    /\ anime_api \in {"ok", "none"}
    /\ templates = GenTemplates
    /\ fs = [n \in Names |-> Absent]
    /\ fs0 = fs
    /\ loop = 0
    /\ left = GenRuns
    /\ IdleCalls
    /\ OthersIdle

SpecGen == InitGen /\ [][NextGen]_vars

\* one cleanup pass, alone, on a directory left by earlier exports: the pass of
\* a generate call that has just returned, or of an export thread after its save
FileStates == [st : {"full"}, mt : 1..MaxMtime] \cup {Absent}

InitPass ==
    /\ anime_api = "ok"
    /\ templates = GenTemplates
    /\ tpl_id = [c \in Calls |-> NoId]
    /\ fs \in [Names -> FileStates]
    /\ fs = Ranked(fs)
    /\ fs0 = fs
    /\ loop = 0
    /\ left = 0
    /\ \E k \in {"engine", "exporter"} : \E n \in TmpNames :
         /\ fs[n].st = "full"
         /\ fs[n].mt = Newest(fs)
         /\ kind = [c \in Calls |-> IF c = 1 THEN k ELSE "none"]
         /\ pc = [c \in Calls |->
                    IF c # 1 THEN "idle" ELSE IF k = "engine" THEN "done" ELSE "cleanup"]
         /\ name = [c \in Calls |-> IF c = 1 THEN n ELSE NoName]
         /\ exp = [c \in Calls |-> IF c = 1 THEN "ok" ELSE "none"]
         /\ ret = [c \in Calls |-> IF c = 1 /\ k = "engine" THEN "path" ELSE "none"]
         /\ out = [c \in Calls |-> IF c = 1 /\ k = "engine" THEN n ELSE NoName]
         /\ seen = [c \in Calls |-> IF c = 1 /\ k = "engine" THEN "full" ELSE "none"]
    /\ raw = [c \in Calls |-> <<>>]
    /\ title = [c \in Calls |-> <<>>]
    /\ tpl = [c \in Calls |-> "none"]
    /\ wall = [c \in Calls |-> "untried"]
    /\ bg = [c \in Calls |-> "none"]
    /\ cl = [c \in Calls |-> IF c = 1 THEN "pending" ELSE "none"]
    /\ listed = [c \in Calls |-> {}]
    /\ todo = [c \in Calls |-> <<>>]
    /\ OthersIdle

NextPass == \E c \in GenCalls : Pass(c)

SpecPass == InitPass /\ [][NextPass]_vars

\* the two calls whose passes race
FaultCalls == {1, 2}

\* a directory of complete files S, written one after the other in the order
\* of their names
OldestFirst(S) ==
    [n \in Names |-> IF n \in S THEN [st |-> "full", mt |-> n] ELSE Absent]

\* the cleanup passes of two calls on one directory, each the pass of a
\* generate call that has returned or of an export thread after its save, with
\* glob, stat and unlink free to raise
InitFaults ==
    /\ anime_api = "ok"
    /\ templates = GenTemplates
    /\ tpl_id = [c \in Calls |-> NoId]
    /\ \E S \in SUBSET Names : fs = Ranked(OldestFirst(S))
    /\ fs0 = fs
    /\ loop = 0
    /\ left = 0
    /\ \E k \in [FaultCalls -> {"engine", "exporter"}] :
       \E n \in [FaultCalls -> TmpNames] :
         /\ \A c \in FaultCalls : \A d \in FaultCalls : c # d => n[c] # n[d]
         /\ \A c \in FaultCalls : fs[n[c]].st = "full"
         /\ kind = [c \in Calls |-> IF c \in FaultCalls THEN k[c] ELSE "none"]
         /\ pc = [c \in Calls |-> IF c \notin FaultCalls THEN "idle"
                                   ELSE IF k[c] = "engine" THEN "done" ELSE "cleanup"]
         /\ name = [c \in Calls |-> IF c \in FaultCalls THEN n[c] ELSE NoName]
         /\ ret = [c \in Calls |->
                     IF c \in FaultCalls /\ k[c] = "engine" THEN "path" ELSE "none"]
         /\ out = [c \in Calls |->
                     IF c \in FaultCalls /\ k[c] = "engine" THEN n[c] ELSE NoName]
         /\ seen = [c \in Calls |->
                      IF c \in FaultCalls /\ k[c] = "engine" THEN "full" ELSE "none"]
    /\ exp = [c \in Calls |-> IF c \in FaultCalls THEN "ok" ELSE "none"]
    /\ raw = [c \in Calls |-> <<>>]
    /\ title = [c \in Calls |-> <<>>]
    /\ tpl = [c \in Calls |-> "none"]
    /\ wall = [c \in Calls |-> "untried"]
    /\ bg = [c \in Calls |-> "none"]
    /\ cl = [c \in Calls |-> IF c \in FaultCalls THEN "pending" ELSE "none"]
    /\ listed = [c \in Calls |-> {}]
    /\ todo = [c \in Calls |-> <<>>]
    /\ OthersIdle

NextFaults ==
    \/ \E c \in FaultCalls : Pass(c)
    \/ \E c \in FaultCalls : \E at \in {"glob", "stat"} : PassFails(c, at)
    \/ \E c \in FaultCalls : PassUnlinkFails(c)
    \/ \E c \in FaultCalls : ExpReturn(c)

SpecFaults == InitFaults /\ [][NextFaults]_vars

\* composite applied to every canvas and every set of stages that raise
InitComposite ==
    /\ EngineIdle
    /\ background \in Backgrounds
    /\ failing \in SUBSET StageSet
    /\ comp_pc = "ready"
    /\ composed = <<>>
    /\ FitIdle
    /\ CanvasIdle
    /\ AppIdle

NextComposite == CompositeCall

SpecComposite == InitComposite /\ [][NextComposite]_vars

\* the sizes auto_font is started at
StartSizes == {MainSize, AutoFloor + AutoStep + 1, AutoFloor, MinSize}

\* the auto-fit of one title: the loop of _render_text_and_watermark started at
\* font_main, or auto_font started at any of StartSizes, in a worker thread
InitFit ==
    /\ EngineIdle
    /\ CompIdle
    /\ CanvasIdle
    /\ AppIdle
    /\ text_em \in 0..MaxTextEms
    /\ has_getsize \in BOOLEAN
    /\ \/ routine = "render" /\ fit_pc = "start" /\ fm_size = MainSize
       \/ routine = "auto_font" /\ fit_pc = "test" /\ fm_size \in StartSizes

NextFit ==
    \/ FitStart
    \/ FitTest
    \/ \E ok \in BOOLEAN : FitShrink(ok)
    \/ AutoFontTurn

\* the thread that runs the routine keeps running
SpecFit == InitFit /\ [][NextFit]_vars /\ WF_vars(NextFit)

\* concurrent generate calls on one engine, as users of raster buffers
InitCanvas ==
    /\ EngineIdle
    /\ CompIdle
    /\ FitIdle
    /\ CanvasIdle
    /\ AppIdle

NextCanvas ==
    \/ \E c \in Calls : CanvasLoad(c)
    \/ \E c \in Calls : CanvasOverlay(c)
    \/ \E c \in Calls : CanvasRenderBase(c)
    \/ \E c \in Calls : CanvasRenderDraw(c)
    \/ \E c \in Calls : CanvasRenderReturn(c)
    \/ \E c \in Calls : CanvasExport(c)
    \/ \E c \in Calls : CanvasAgain(c)

SpecCanvas == InitCanvas /\ [][NextCanvas]_vars

\* calls on one Database object: connect, _ensure, init_indexes and close,
\* the server free to answer or fail each ping and each index creation
InitDb ==
    /\ EngineIdle
    /\ CompIdle
    /\ FitIdle
    /\ CanvasIdle
    /\ AppIdle

NextDb ==
    \/ \E p \in DbCalls : \E op \in {"connect", "ensure"} : ConnectFast(p, op)
    \/ \E p \in DbCalls : \E op \in {"connect", "ensure"} : ConnectLock(p, op)
    \/ \E p \in DbCalls : \E op \in {"connect", "ensure"} : ConnectWait(p, op)
    \/ \E p \in DbCalls : ConnectGranted(p)
    \/ \E p \in DbCalls : \E ok \in BOOLEAN : PingDone(p, ok)
    \/ \E p \in DbCalls : SleepDone(p)
    \/ Close
    \/ \E p \in DbCalls : IndexesCall(p)
    \/ \E p \in DbCalls : IndexesGranted(p)
    \/ \E p \in DbCalls : \E ok \in BOOLEAN : IndexesCreated(p, ok)

SpecDb == InitDb /\ [][NextDb]_vars

\* the bot task from its first on_startup: every await may return or raise,
\* and the task may be cancelled once
InitBot ==
    /\ EngineIdle
    /\ CompIdle
    /\ FitIdle
    /\ CanvasIdle
    /\ DbIdle
    /\ AuthIdle
    /\ BotGlobals
    /\ bot_pc = "startup"
    /\ startups = 1

NextBot ==
    \/ \E ok \in BOOLEAN : BotStartup(ok)
    \/ BotCommands
    \/ \E normal \in BOOLEAN : BotPollingEnds(normal)
    \/ \E x \in {"crash", "cancel"} : \E ok \in BOOLEAN : BotShutdownDp(x, ok)
    \/ \E x \in {"crash", "cancel"} : \E ok \in BOOLEAN : BotShutdownBot(x, ok)
    \/ BotSleepDone
    \/ BotCancel

SpecBot == InitBot /\ [][NextBot]_vars

\* one request on every templates directory: each of the four template files
\* loads, does not decode or is missing; create_banner gets every template id,
\* an unknown one included, and the engine every kind of path
TemplateStates == {"absent", "corrupt", "ok"}

\* the titles of these requests: an empty one and one with a glyph
TemplateTitles == {<<>>, <<"a">>}

InitTemplate ==
    /\ anime_api \in {"ok", "none"}
    /\ templates \in [TemplateNos -> TemplateStates]
    /\ fs = [n \in Names |-> Absent]
    /\ fs0 = fs
    /\ loop = 0
    /\ left = 1
    /\ IdleCalls
    /\ OthersIdle

NextTemplate ==
    \/ \E c \in GenCalls :
         /\ Fresh(c)
         /\ \E k \in {"engine", "service"} : \E id \in TemplateIds \cup {NoId} :
              \E t \in TemplatePaths :
                /\ k = "service" => (id # NoId /\ t = ServiceTemplate(id))
                /\ k = "engine" => id = NoId
                /\ \E r \in TemplateTitles : GenStart(c, k, id, t, r)
    \/ \E c \in GenCalls : TplOpened(c)
    \/ \E c \in GenCalls : \E w \in {"data", "nodata", "exception"} : WallFetched(c, w)
    \/ \E c \in GenCalls : \E ok \in BOOLEAN : WallDecoded(c, ok)
    \/ \E c \in GenCalls : OverlayDone(c)
    \/ \E c \in GenCalls : \E ok \in BOOLEAN : RenderDone(c, ok)
    \/ \E c \in GenCalls : Export(c)
    \/ \E c \in GenCalls : GenReturn(c)
    \/ \E c \in GenCalls : \E d \in CopyNames : ServiceCopy(c, d)
    \/ \E c \in GenCalls : ServiceReturn(c)
    \/ \E c \in GenCalls : Pass(c)

SpecTemplate == InitTemplate /\ [][NextTemplate]_vars

\* the middleware on events of every class, with and without a user, for every
\* outcome of the ban check, the notice, the upsert and the handler
InitAuth ==
    /\ EngineIdle
    /\ CompIdle
    /\ FitIdle
    /\ CanvasIdle
    /\ AppIdle

NextAuth ==
    \/ \E t \in EventTypes : \E u \in BOOLEAN : AuthEvent(t, u)
    \/ \E r \in {"banned", "clear", "raised"} : \E cq \in BOOLEAN : AuthBanChecked(r, cq)
    \/ \E ok \in BOOLEAN : AuthNotice(ok)
    \/ \E ok \in BOOLEAN : AuthUpserted(ok)
    \/ \E ok \in BOOLEAN : AuthHandlerDone(ok)
    \/ \E ok \in BOOLEAN : AuthHandlerAgainDone(ok)

SpecAuth == InitAuth /\ [][NextAuth]_vars

\* ------------------------------------------------------------------ claims
ExportErrors == {"err_mkdir", "err_mkstemp", "err_save"}

Running(c) == pc[c] \notin {"idle", "done"}

IsGenerate(c) == kind[c] \in {"engine", "service"}

\* C1: _load_background never raises to its caller: for every template
\* reference and every wallpaper outcome it returns a canvas, the gradient step
\* succeeding when the template and the wallpaper attempts have both failed.
C1_LoadBackgroundNeverRaises == \A c \in Calls : ret[c] # "err_gradient"

\* C2: whenever a generate call returns a path, a completely written file
\* exists at that path at the moment of the return.
C2_ReturnedFileComplete == \A c \in Calls : seen[c] \in {"none", "full"}

\* every call has returned and every cleanup pass has run to its end
Quiescent ==
    \A c \in Calls : ~Running(c) /\ cl[c] \in {"none", "done", "aborted"}

\* C3: once every export has finished and every scheduled cleanup pass has run
\* to completion, at most KeepFiles files match banner_*.jpg in the directory
\* (stated for the calls that returned a path).
C3_RetentionBound ==
    (Quiescent /\ \A c \in Calls : ret[c] \in {"none", "path"}) =>
        Cardinality(Glob(fs)) <= KeepFiles

PassOver(c) == cl[c] \in {"done", "aborted"}

Deleted == Present(fs0) \ Present(fs)

C5_PassNeverGivesUp == \A c \in Calls : cl[c] # "aborted"

\* C6: no file matching banner_*.jpg is ever in the directory empty or
\* partially written, and a failed export leaves no such file behind.
C6_NoPartialArtifact == \A n \in Names : fs[n].st \in {"absent", "full"}

\* the export of the call holds a reserved name and the call has not returned
Exporting(c) ==
    /\ pc[c] \in {"save_open", "save_write", "exported"}
    /\ name[c] # NoName

\* C7: two generate calls that run concurrently never hold the same output
\* filename.
C7_NamesNeverCollide ==
    \A c \in Calls : \A d \in Calls :
        (c # d /\ IsGenerate(c) /\ IsGenerate(d) /\ Exporting(c) /\ Exporting(d))
            => name[c] # name[d]

\* the gradient step of _load_background has been entered
GradientEntered(c) == ret[c] = "err_gradient"

\* the wallpaper attempt gave no usable image, or could not be made
WallpaperFailed(c) ==
    IF anime_api = "ok"
    THEN wall[c] \in {"nodata", "exception", "undecodable"}
    ELSE wall[c] = "untried"

\* C8: the background sources are tried in the order template, wallpaper,
\* gradient and the first success wins: the wallpaper collaborator is called
\* only if no template was given, its file does not exist or loading it
\* failed, and the gradient step is entered only if the wallpaper attempt gave
\* no usable image either.
C8_BackgroundPriority ==
    \A c \in Calls :
        /\ wall[c] # "untried" => (tpl[c] # "ok" /\ pc[c] # "tpl_open")
        /\ GradientEntered(c) =>
               (tpl[c] # "ok" /\ bg[c] = "none" /\ WallpaperFailed(c))
        /\ bg[c] = "template" => (tpl[c] = "ok" /\ wall[c] = "untried")
        /\ bg[c] = "wallpaper" => (tpl[c] # "ok" /\ wall[c] = "decoded")

C8_Witness ==
    \E c \in Calls :
        /\ tpl[c] = "corrupt"
        /\ wall[c] = "undecodable"
        /\ GradientEntered(c)

\* stages of LastPerson07_generate: 1 resolve background, 2 compositing,
\* 3 typography, 4 export; 5 is create_banner after generate has returned
StageNo(p) ==
    CASE p \in {"tpl_open", "wall_fetch", "wall_decode"} -> 1
      [] p = "overlay" -> 2
      [] p = "render" -> 3
      [] p \in {"reserve", "save_open", "save_write", "exported"} -> 4
      [] p \in {"copying", "copied"} -> 5
      [] OTHER -> 0

\* C9: within one generate call the stages run in the order trim/truncate
\* title, resolve background, compositing, typography, export, schedule
\* cleanup, each starting only after the one before it has finished, and
\* generate returns the path without waiting for the cleanup pass.
C9_StageOrder ==
    [][\A c \in Calls : (kind'[c] \in {"engine", "service"}) =>
         \* a call starts with the title trimmed and the background stage
         /\ (~Running(c) /\ Running(c)') =>
                (StageNo(pc'[c]) = 1 /\ title'[c] = Truncated(raw'[c]))
         \* no stage is skipped or taken again, and the title is not changed
         /\ (Running(c) /\ Running(c)') =>
                /\ StageNo(pc'[c]) \in {StageNo(pc[c]), StageNo(pc[c]) + 1}
                /\ title'[c] = title[c]
         \* the cleanup is scheduled when the export has ended, not before
         /\ (cl[c] = "none" /\ cl'[c] # "none") =>
                (pc[c] = "exported" /\ exp[c] = "ok" /\ cl'[c] = "pending")
         \* generate returns with the pass scheduled and not yet run
         /\ (seen[c] = "none" /\ seen'[c] # "none") =>
                (pc[c] = "exported" /\ cl'[c] = "pending")
         /\ (Running(c) /\ ret'[c] = "path") => StageNo(pc[c]) >= 4
      ]_vars

C9_Witness ==
    \E c \in Calls :
        /\ kind[c] = "engine"
        /\ ret[c] = "path"
        /\ bg[c] = "wallpaper"
        /\ cl[c] = "pending"

\* C10: when the export step fails (directory creation, name reservation or
\* image write), the call raises that failure, returns no path and schedules
\* no cleanup pass.
C10_ExportFailurePropagates ==
    \A c \in Calls :
        /\ (exp[c] \in ExportErrors /\ pc[c] = "done") =>
               (ret[c] = exp[c] /\ out[c] = NoName /\ cl[c] = "none")
        /\ (exp[c] \in ExportErrors /\ pc[c] = "exported") =>
               (ret[c] = "none" /\ out[c] = NoName /\ cl[c] = "none")

C10_Witness ==
    \E c \in Calls :
        /\ kind[c] = "engine"
        /\ pc[c] = "done"
        /\ ret[c] = "err_save"
        /\ fs[name[c]].st = "partial"

\* C11: no failure inside a cleanup pass (glob, stat, sort or unlink raising)
\* reaches the caller of generate or of export_async: no step of a pass changes
\* what a call returns, an export thread whose save succeeded returns its path
\* whatever its pass did, and a pass that has ended is not run again.
C11_CleanupFailureSwallowed ==
    [][\A c \in Calls :
         /\ (cl[c] \in {"pending", "listed", "removing"} /\ pc'[c] = pc[c]) =>
                (ret'[c] = ret[c] /\ out'[c] = out[c] /\ exp'[c] = exp[c])
         /\ (cl[c] \in {"pending", "listed", "removing"} /\ pc'[c] # pc[c]) =>
                (pc'[c] = "exported" /\ exp'[c] = "ok" /\ ret'[c] = "none")
         /\ (kind[c] = "exporter" /\ pc[c] = "exported" /\ exp[c] = "ok"
               /\ pc'[c] = "done") =>
                (ret'[c] = "path" /\ out'[c] = name[c])
         /\ (PassOver(c) /\ left' = left) => cl'[c] = cl[c]
      ]_vars

C11_Witness ==
    \E c \in Calls : \E d \in Calls :
        /\ kind[c] = "exporter" /\ cl[c] = "aborted" /\ ret[c] = "path"
        /\ kind[d] = "engine" /\ cl[d] = "aborted" /\ ret[d] = "path"

\* the canvas with the stages that raise skipped and every other stage applied
Degraded(b, bad) == b \o SelectSeq(Stages, LAMBDA st : st \notin bad)

\* C12: compositing degrades per stage: when a stage of the chain raises,
\* composite returns the canvas with that stage skipped, the effects of the
\* stages before it kept and the stages after it applied.
C12_CompositeDegradesPerStage ==
    comp_pc = "returned" => composed = Degraded(background, failing)

\* the minimum size of the routine that is running
FloorSize == IF routine = "auto_font" THEN AutoFloor ELSE MinSize

\* C13: the auto-fit font search terminates for every title: it shrinks the
\* font a finite number of times and stops when the title fits or the floor is
\* reached, also when the title is still too wide at the floor.
C13_FitTerminates == <>(fit_pc = "done")

\* C14: after auto-fit either the title's width at the chosen size is at most
\* 90% of the canvas width or the chosen size is the floor: no size above the
\* floor is accepted while the title is wider than the limit.
C14_FitsOrAtFloor ==
    fit_pc = "done" =>
        (TextWidth(text_em, fm_size) <= WidthLimit \/ fm_size = FloorSize)

IsPrefix(p, t) == Len(p) <= Len(t) /\ p = SubSeq(t, 1, Len(p))

\* C15: in every stage of a generate call, from background resolution on, the
\* title of the call has at most MaxTitleLength characters and is the prefix
\* of that length of the trimmed input (the whole trimmed input when that is
\* short enough).
C15_TitleTruncated ==
    \A c \in Calls :
        (IsGenerate(c) /\ pc[c] # "idle") =>
            /\ Len(title[c]) <= MaxTitleLength
            /\ IsPrefix(title[c], Strip(raw[c]))
            /\ Len(Strip(raw[c])) <= MaxTitleLength => title[c] = Strip(raw[c])
            /\ Len(Strip(raw[c])) > MaxTitleLength => Len(title[c]) = MaxTitleLength

C15_Witness ==
    \E c \in Calls :
        /\ IsGenerate(c)
        /\ pc[c] = "render"
        /\ Len(Strip(raw[c])) > MaxTitleLength
        /\ Len(raw[c]) > Len(Strip(raw[c]))

\* C16: a title that is empty after trimming is not rejected: the request
\* goes through the stages like any other and is never refused for its title.
C16_EmptyTitleAccepted ==
    \A c \in Calls :
        (IsGenerate(c) /\ pc[c] # "idle" /\ Strip(raw[c]) = <<>>) =>
            ret[c] # "err_title"

\* C18: a cleanup pass that finds at most KeepFiles matching files returns
\* after the listing: it deletes nothing and leaves the directory unchanged,
\* also when the count equals the limit.
C18_WithinLimitNoOp ==
    (Cardinality(Present(fs0)) <= KeepFiles /\ cl[1] # "pending") =>
        (fs = fs0 /\ cl[1] = "done" /\ todo[1] = <<>>)

C18_Witness ==
    /\ Cardinality(Present(fs0)) = KeepFiles
    /\ cl[1] = "done"
    /\ listed[1] = Present(fs0)

\* C19: every file matching banner_*.jpg in the output directory was created
\* by the export step (tempfile.mkstemp of _export_image or _export_sync), one
\* per generation.
C19_OnlyExportCreates == Present(fs) \subseteq TmpNames

\* C17: when the unlink of one excess file raises inside a cleanup pass (the
\* file is already gone, or permission is denied), the pass swallows the
\* failure and goes on with the next excess file: it ends only when it has
\* attempted every file it set out to remove.
C17_UnlinkFailureSwallowed ==
    [][\A c \in Calls :
         /\ (raised'[c] # raised[c] /\ left' = left) =>
                /\ todo'[c] = Tail(todo[c])
                /\ cl'[c] = IF Tail(todo[c]) = <<>> THEN "done" ELSE "removing"
         /\ cl'[c] = "done" => todo'[c] = <<>>
         /\ (cl[c] = "removing" /\ cl'[c] # "removing") => cl'[c] = "done"
      ]_vars

C17_Witness ==
    \E c \in Calls :
        /\ cl[c] = "done"
        /\ Cardinality(raised[c]) >= 2

\* C20: concurrent generate calls never share a canvas: every buffer a call
\* reads or writes was created within that call, and no buffer is referred to
\* by two calls.
C20_CanvasNotShared ==
    \A c \in Calls :
        /\ \A b \in refs[c] : heap[b] = c
        /\ canvas[c] # 0 => canvas[c] \in refs[c]
        /\ work[c] # 0 => work[c] \in refs[c]
        /\ \A d \in Calls : c # d => refs[c] \cap refs[d] = {}

C20_Witness ==
    \E c \in Calls : \E d \in Calls :
        /\ c # d
        /\ cv_pc[c] = "drawing"
        /\ cv_pc[d] = "rendered"
        /\ work[c] < canvas[d]

\* the call is inside the critical section of connect
InSection(p) ==
    /\ db_op[p] \in {"connect", "ensure"}
    /\ db_pc[p] \in {"ping", "sleep", "idx_lock_wait"}

C23_NoCallBlocksForever == connect_lock \notin Waiting

\* C24: connect returns normally only when a ping has succeeded on the client
\* the object holds, and a call that raised after its last retry leaves no
\* client behind.
C24_ReturnsOnlyConnected ==
    \A p \in DbCalls :
        /\ db_ret[p] # "unconnected"
        /\ db_ret[p] = "raised" => client # own[p]

RECURSIVE Pow2(_)
Pow2(n) == IF n = 0 THEN 1 ELSE 2 * Pow2(n - 1)

\* C25: the delay before the k-th restart is min(30, 2^(k-1)) seconds, and
\* each crash is followed by shutdown, then the delay, then a new startup.
C25_BackoffSchedule ==
    [][/\ (bot_pc # "sleep" /\ bot_pc' = "sleep") =>
            /\ crashes' >= 1
            /\ delay' = Min(MaxBackoff, Pow2(crashes' - 1))
            /\ down'
       /\ crashes' # crashes =>
            /\ crashes' = crashes + 1
            /\ bot_pc' \in {"crash_dp", "crash_bot", "sleep"}
       /\ (bot_pc \in {"crash_dp", "crash_bot"} /\ bot_pc' # bot_pc) =>
            bot_pc' \in {"crash_bot", "sleep", "exited"}
       /\ (bot_pc = "sleep" /\ bot_pc' # "sleep") => bot_pc' \in {"startup", "exited"}
       /\ startups' # startups =>
            /\ bot_pc = "sleep"
            /\ bot_pc' = "startup"
            /\ startups' = crashes + 1
      ]_vars

C25_Witness ==
    /\ bot_pc = "sleep"
    /\ crashes > 6
    /\ delay = MaxBackoff

C27_PollingOnOpenBot ==
    bot_pc = "polling" => (~bot_closed /\ ~dp_down /\ reg_count = 1)

\* C28: the middleware stops the chain for banned users: when the ban check
\* reports the sender as banned the downstream handler is never invoked, also
\* when sending the ban notice fails, and __call__ returns without a result.
C28_BannedNeverHandled ==
    ban = "banned" =>
        /\ calls = 0
        /\ auth_pc \in {"notice", "done"}
        /\ auth_pc = "done" => auth_ret = "stopped"

C28_Witness ==
    /\ ban = "banned"
    /\ notice = "failed"
    /\ auth_pc = "done"
    /\ ev_type = "CallbackQuery"

\* C29: the middleware invokes the downstream handler at most once per event,
\* for every outcome of the ban check, the upsert and the handler, also for a
\* handler that raises.
C29_HandlerAtMostOnce == calls <= 1

\* the request of slot c refers to a template file that does not exist: the
\* file create_banner maps its template id to, or the path given to generate
MissingTemplate(c) ==
    /\ pc[c] # "idle"
    /\ ret[c] # "err_title"
    /\ \/ kind[c] = "service" /\ templates[TemplateMap(tpl_id[c])] = "absent"
       \/ kind[c] = "engine" /\ tpl[c] = "missing"

\* the template step is skipped for a missing template: create_banner hands
\* no template to the engine and the engine opens none and uses none
TemplateStepSkipped ==
    \A c \in Calls :
        MissingTemplate(c) =>
            /\ kind[c] = "service" => tpl[c] = "none"
            /\ pc[c] # "tpl_open"
            /\ bg[c] # "template"

\* C21: a template reference that resolves to no existing file is treated as
\* "no template" at every layer: create_banner passes no template to the engine
\* (an unknown id is mapped to template 1 first), the engine skips the template
\* step, and the request goes on through wallpaper or gradient towards an
\* artifact: loading the background never fails it.
C21_MissingTemplateProceeds ==
    /\ TemplateStepSkipped
    /\ \A c \in Calls : MissingTemplate(c) => ret[c] # "err_gradient"

\* create_banner of slot c returns or raises in this step
ServiceEnds(c) == kind[c] = "service" /\ pc[c] # "done" /\ pc'[c] = "done"

\* C30: the path returned by create_banner names a file that exists when the
\* call returns: under concurrent requests no retention pass removes the
\* engine's artifact before the service has copied it (the call never fails
\* for a missing artifact), nor the copy before it is returned.
C30_ReturnedPathExists ==
    [][\A c \in Calls :
          ServiceEnds(c) =>
              /\ ret'[c] \notin {"err_missing", "err_copy"}
              /\ ret'[c] = "path" => fs'[out'[c]].st # "absent"]_vars
====
